---- MODULE Spec2Model ----
(***************************************************************************)
(* Scholar_Mail_Digest: the incremental ingestion pipeline of              *)
(* scholar_digest (cli.fetch and the storage, mail_fetcher, parser and     *)
(* scorer functions it calls), as a state machine.                         *)
(*                                                                         *)
(* The flat file (scholar_articles.csv) is modelled by its cells as        *)
(* written: pandas writes a missing value (None/NaN) as an empty cell and  *)
(* reads an empty cell back as NaN.  The database table keeps the values   *)
(* as inserted.  The digest sha256 is modelled as injective.               *)
(*                                                                         *)
(* cli.fetch passes proxy_config= and start_timestamp= to functions whose  *)
(* definitions under mail_fetcher.py:116 and report_builder.py:16 do not   *)
(* declare them.  Spec follows the stages as cli.fetch sequences them,     *)
(* with each call running the body of the function it names.               *)
(***************************************************************************)
EXTENDS Integers, Sequences, FiniteSets, TLC

\* ------------------------------------------------------------------ bounds
MaxRuns == 2        \* fetch runs in one behaviour
MaxReportRows == 3  \* rows of the file handed to the report selection

\* ------------------------------------------------------------- value model
\* pandas' missing value (None, NaN, pd.NA)
NaN == "NaN"

\* variant: the text as given
lower_identity(s) == s

\* str.lower() on the titles and texts of the model
lower(s) ==
    CASE s = "Quantum Catalysis" -> "quantum catalysis"
      [] s = "Fast  DFT"         -> "fast  dft"
      [] s = " Fast DFT "        -> " fast dft "
      [] s = "quantum catalysis" -> "quantum catalysis"
      [] s = "Battery Review"    -> "battery review"
      [] s = "Fast DFT"          -> "fast dft"
      [] s = "Battery"           -> "battery"
      [] OTHER -> s

\* config['keywords']['exclude']
exclude_keywords == << "Battery" >>

\* kw in text: the substring test, on the lower-cased texts of the model
substring_in(kw, text) ==
    << kw, text >> \in { << "battery", "battery review" >> }

\* The alert emails that can be delivered: id, Date header (epoch seconds),
\* and the article entries of the HTML body.
Mailbox ==
    { [id |-> "m1", date |-> 1,
       body_html |-> << [title |-> "Quantum Catalysis", link |-> "l1", summary |-> ""] >>],
      [id |-> "m2", date |-> 2,
       body_html |-> << [title |-> "quantum catalysis", link |-> "l2",
                         summary |-> "Battery Review"] >>],
      [id |-> "m3", date |-> 3,
       body_html |-> << [title |-> "Fast DFT", link |-> "l3", summary |-> "s3"] >>],
      [id |-> "m4", date |-> 2,
       body_html |-> << [title |-> "No Link", link |-> "", summary |-> "s4"] >>] }

Dates == {m.date : m \in Mailbox}

VARIABLES
    mailbox,            \* the alert emails delivered so far
    csvState,           \* scholar_articles.csv: "absent" | "ok" | "empty" | "corrupt"
    csv,                \* its rows, when readable: cells as written
    db,                 \* articles table of scholar_articles.db: set of rows
    lastRunFile,        \* last_run.txt: <<>> when absent, else <<text>>
    pc,                 \* position of cli.fetch
    runs,               \* number of fetch runs started; also datetime.now()
    start_timestamp,    \* cli.fetch local: <<>> for None, else <<t>>
    listed,             \* messages listed by the mail source for this run
    raw_emails,         \* cli.fetch local
    all_parsed_articles,\* cli.fetch local
    latest_email_date_ts,\* cli.fetch local: <<>> for None, else <<t>>
    enable_web_article, \* config['enrichment']['enable_web_article'] as step 5 reads it
    submitted,          \* hashes handed to scorer.score_articles in this run
    outcome,            \* how the last run ended
    save_returned,      \* what save_articles returned: <<>> for None, else <<n>>
    scoring_mode,       \* how score_articles ran: "sequential" | "parallel" | "fallback"
    results,            \* score_articles local: the verdicts as appended
    llm_calls,          \* chain.invoke calls of the running fetch: hash -> what the call did
    web_fetched,        \* hashes whose link the running fetch handed to the article fetcher
    write_failed,       \* a write to the file or the table failed in this run
    api_batch,          \* the frame of a direct storage update call, <<>> if none
    report              \* articles_for_report_df of the last report selection

vars == << mailbox, csvState, csv, db, lastRunFile, pc, runs, start_timestamp, listed,
           raw_emails, all_parsed_articles, latest_email_date_ts,
           enable_web_article, submitted, outcome, save_returned, scoring_mode,
           results, llm_calls, web_fetched, write_failed, api_batch, report >>

\* ------------------------------------------------------- storage.py helpers
\* variant: the digest of the title as given, without lower()
get_title_hash_case_sensitive(title) == << "sha256", title >>

\* hashlib.sha256(title.lower().encode('utf-8')).hexdigest()
get_title_hash(title) == << "sha256", lower(title) >>

expected_cols == << "hash", "title", "link", "summary", "email_id", "email_date",
                    "score", "reason", "full_text_summary", "added_at" >>

\* DataFrame.to_csv: a missing value is written as an empty cell
to_csv_cell(v) == IF v = NaN THEN "" ELSE v

\* pd.read_csv: an empty cell is read as NaN
read_csv_cell(c) == IF c = "" THEN NaN ELSE c

\* one row through DataFrame.to_csv (email_date and added_at are numbers)
to_csv_row(r) ==
    [r EXCEPT !.link = to_csv_cell(@), !.summary = to_csv_cell(@),
              !.email_id = to_csv_cell(@), !.score = to_csv_cell(@),
              !.reason = to_csv_cell(@), !.full_text_summary = to_csv_cell(@)]

\* one row through pd.read_csv
read_csv_row(r) ==
    [r EXCEPT !.link = read_csv_cell(@), !.summary = read_csv_cell(@),
              !.email_id = read_csv_cell(@), !.score = read_csv_cell(@),
              !.reason = read_csv_cell(@), !.full_text_summary = read_csv_cell(@)]

to_csv(df) == [i \in 1..Len(df) |-> to_csv_row(df[i])]
read_csv(rows) == [i \in 1..Len(rows) |-> read_csv_row(rows[i])]

\* the hash column of a frame
hash_column(df) == {df[i].hash : i \in 1..Len(df)}

\* new_articles_df of save_articles: hash, added_at and the missing columns
new_articles_row(article, now) ==
    [hash |-> get_title_hash(article.title),
     title |-> article.title, link |-> article.link, summary |-> article.summary,
     email_id |-> article.email_id, email_date |-> article.email_date,
     score |-> NaN, reason |-> NaN, full_text_summary |-> NaN,
     added_at |-> now]

new_articles_frame(articles_data, now) ==
    [i \in 1..Len(articles_data) |-> new_articles_row(articles_data[i], now)]

\* variant: drop_duplicates(subset="hash", keep="last")
drop_duplicates_keep_last(df) ==
    LET kept == SelectSeq([i \in 1..Len(df) |-> [row |-> df[i], idx |-> i]],
                    LAMBDA x : \A j \in (x.idx + 1)..Len(df) : df[j].hash # x.row.hash)
    IN  [i \in 1..Len(kept) |-> kept[i].row]

\* DataFrame.drop_duplicates(subset="hash", keep="first")
RECURSIVE drop_duplicates_from(_, _)
drop_duplicates_from(df, seen) ==
    IF df = << >> THEN << >>
    ELSE IF Head(df).hash \in seen
         THEN drop_duplicates_from(Tail(df), seen)
         ELSE << Head(df) >> \o drop_duplicates_from(Tail(df), seen \cup {Head(df).hash})

drop_duplicates(df) == drop_duplicates_from(df, {})

\* variant: the batch is not filtered against the rows already stored
not_isin_unfiltered(df, existing_df) == df

\* new_articles_df[~new_articles_df["hash"].isin(existing_df["hash"])]
not_isin(df, existing_df) ==
    SelectSeq(df, LAMBDA r : r.hash \notin hash_column(existing_df))

\* variant: the batch is kept whole, whatever the file holds
save_new_articles_df_whole_batch(state, rows, articles_data, now) ==
    drop_duplicates(new_articles_frame(articles_data, now))

\* new_articles_df as save_articles leaves it after the CSV section
save_new_articles_df(state, rows, articles_data, now) ==
    LET deduped == drop_duplicates(new_articles_frame(articles_data, now))
        existing_df == read_csv(rows)
    IN  IF state = "ok" /\ existing_df # << >>
        THEN not_isin(deduped, existing_df)
        ELSE deduped

\* variant: the file is rewritten from the batch alone
save_combined_df_overwrite(state, rows, articles_data, now) ==
    drop_duplicates(new_articles_frame(articles_data, now))

\* combined_df of save_articles
save_combined_df(state, rows, articles_data, now) ==
    LET new_articles_df == save_new_articles_df(state, rows, articles_data, now)
    IN  IF state = "ok"
        THEN read_csv(rows) \o new_articles_df
        ELSE new_articles_df

\* table.insert_all(records, pk="hash", ignore=True)
insert_all_ignore(table, records) ==
    table \cup {records[i] : i \in {j \in 1..Len(records) :
                    /\ \A r \in table : r.hash # records[j].hash
                    /\ \A k \in 1..(j-1) : records[k].hash # records[j].hash}}

\* save_articles: the file and the table after the call
save_articles(state, rows, table, articles_data, now) ==
    IF articles_data = << >>
    THEN [csvState |-> state, csv |-> rows, db |-> table, returned |-> << >>]
    ELSE LET new_articles_df == save_new_articles_df(state, rows, articles_data, now)
             combined_df == save_combined_df(state, rows, articles_data, now)
         IN  [csvState |-> IF combined_df # << >> THEN "ok" ELSE state,
              csv |-> IF combined_df # << >> THEN to_csv(combined_df) ELSE rows,
              db |-> insert_all_ignore(table, new_articles_df),
              returned |-> << >>]

\* variant: only the rows of the newest batch are loaded
load_all_articles_from_csv_newest_batch(state, rows) ==
    IF state = "ok"
    THEN SelectSeq(read_csv(rows),
                   LAMBDA r : \A i \in 1..Len(rows) : rows[i].added_at <= r.added_at)
    ELSE << >>

\* load_all_articles_from_csv
load_all_articles_from_csv(state, rows) ==
    IF state = "ok" THEN read_csv(rows) ELSE << >>

\* variant: the update is aligned on row position instead of the hash
frame_update_score_by_position(existing_df, other) ==
    [i \in 1..Len(existing_df) |->
        IF i > Len(other) THEN existing_df[i]
        ELSE [existing_df[i] EXCEPT !.score = other[i].score,
                                    !.reason = other[i].reason]]

\* existing_df.update(other[cols]) after set_index('hash'): the cells of a row
\* whose hash is in other are overwritten by other's non-missing values
frame_update_score(existing_df, other) ==
    [i \in 1..Len(existing_df) |->
        LET r == existing_df[i]
            m == {j \in 1..Len(other) : other[j].hash = r.hash}
        IN  IF m = {} THEN r
            ELSE LET o == other[CHOOSE j \in m : TRUE]
                 IN  [r EXCEPT !.score = IF o.score # NaN THEN o.score ELSE @,
                               !.reason = IF o.reason # NaN THEN o.reason ELSE @]]

frame_update_enrichment(existing_df, other) ==
    [i \in 1..Len(existing_df) |->
        LET r == existing_df[i]
            m == {j \in 1..Len(other) : other[j].hash = r.hash}
        IN  IF m = {} THEN r
            ELSE LET o == other[CHOOSE j \in m : TRUE]
                 IN  [r EXCEPT !.full_text_summary =
                                  IF o.full_text_summary # NaN
                                  THEN o.full_text_summary ELSE @]]

\* other.set_index('hash') can be aligned only if its labels are unique
unique_index(df) ==
    \A i, j \in 1..Len(df) : df[i].hash = df[j].hash => i = j

\* variant: a hash that is not in the file gets a new row
update_article_scores_upsert(state, rows, scored_articles_df) ==
    IF state # "ok" \/ scored_articles_df = << >> THEN rows
    ELSE IF ~unique_index(scored_articles_df) THEN rows
    ELSE to_csv(frame_update_score(read_csv(rows), scored_articles_df))
         \o to_csv([k \in 1..Len(SelectSeq(scored_articles_df,
                                   LAMBDA o : o.hash \notin hash_column(rows))) |->
                 LET o == SelectSeq(scored_articles_df,
                                    LAMBDA u : u.hash \notin hash_column(rows))[k]
                 IN  [hash |-> o.hash, title |-> NaN, link |-> NaN, summary |-> NaN,
                      email_id |-> NaN, email_date |-> 0,
                      score |-> o.score, reason |-> o.reason,
                      full_text_summary |-> NaN, added_at |-> 0]])

\* update_article_scores_in_csv: the rows of the file after the call
update_article_scores_in_csv(state, rows, scored_articles_df) ==
    IF state # "ok" \/ scored_articles_df = << >> THEN rows
    ELSE IF ~unique_index(scored_articles_df) THEN rows
    ELSE to_csv(frame_update_score(read_csv(rows), scored_articles_df))

\* update_article_enrichment_in_csv: the rows of the file after the call
update_article_enrichment_in_csv(state, rows, enriched_articles_df) ==
    IF state # "ok" \/ enriched_articles_df = << >> THEN rows
    ELSE IF ~unique_index(enriched_articles_df) THEN rows
    ELSE to_csv(frame_update_enrichment(read_csv(rows), enriched_articles_df))

\* str.strip(): leading and trailing whitespace removed, inner whitespace kept
strip(text) ==
    CASE text = " 2.0\n" -> "2.0"
      [] text = " Fast DFT " -> "Fast DFT"
      [] OTHER -> text

\* the timestamps whose text the model can write and read back
Timestamps == 0..9

\* str(timestamp) of a float holding a whole number of seconds
str(timestamp) == ToString(timestamp) \o ".0"

\* float(text): << >> stands for ValueError
float(text) ==
    IF \E t \in Timestamps : text \in {str(t), ToString(t)}
    THEN << CHOOSE t \in Timestamps : text \in {str(t), ToString(t)} >>
    ELSE << >>

\* get_last_run_timestamp / update_last_run_timestamp: the file is << >> when
\* absent, else << its text >>; the result is << >> for None
\* variant: unparsable text reads as the epoch
get_last_run_timestamp_epoch_default(file) ==
    IF file = << >> THEN << >>
    ELSE IF float(strip(file[1])) = << >> THEN << 0 >> ELSE float(strip(file[1]))
get_last_run_timestamp(file) ==
    IF file = << >> THEN << >> ELSE float(strip(file[1]))
update_last_run_timestamp(timestamp) == << str(timestamp) >>

\* variant: no value counts as set
truthy_never(opt) == FALSE

\* Python truthiness of an optional number
truthy(opt) == opt # << >> /\ opt[1] # 0

\* ------------------------------------------------------- mail_fetcher.py
\* emails_data.sort(key=lambda x: x['date'], reverse=True): stable
RECURSIVE sort_by_date_desc(_)
sort_by_date_desc(emails) ==
    IF emails = << >> THEN << >>
    ELSE LET n == Len(emails)
             e == emails[n]
             t == sort_by_date_desc(SubSeq(emails, 1, n - 1))
             k == Cardinality({i \in 1..Len(t) : t[i].date >= e.date})
         IN  SubSeq(t, 1, k) \o << e >> \o SubSeq(t, k + 1, Len(t))

\* the messages the query "from:... after:<int(last_run_timestamp)>" matches
query_matches(box, last_run_timestamp) ==
    {m \in box : truthy(last_run_timestamp) => m.date >= last_run_timestamp[1]}

\* the orders in which the mail source can list a set of messages
listings(msgs) ==
    {s \in [1..Cardinality(msgs) -> msgs] : \A i, j \in DOMAIN s : s[i] = s[j] => i = j}

\* get_scholar_alert_emails: the details that downloaded, newest first
get_scholar_alert_emails(message_ids, failed) ==
    sort_by_date_desc(SelectSeq(message_ids, LAMBDA m : m \notin failed))

\* ------------------------------------------------------------- parser.py
\* parse_scholar_email_html: the entries with a title and a link
\* (title and summary come from get_text(strip=True))
parse_scholar_email_html(body_html) ==
    SelectSeq([i \in 1..Len(body_html) |->
                  [title |-> strip(body_html[i].title), link |-> body_html[i].link,
                   summary |-> strip(body_html[i].summary)]],
              LAMBDA a : a.title # "" /\ a.link # "")

\* ------------------------------------------------------ cli.py, step 2
\* step 2 of fetch: the articles of every email, with their provenance
RECURSIVE parse_all(_)
parse_all(emails) ==
    IF emails = << >> THEN << >>
    ELSE LET email_data == Head(emails)
             parsed == parse_scholar_email_html(email_data.body_html)
         IN  [i \in 1..Len(parsed) |->
                 [title |-> parsed[i].title, link |-> parsed[i].link,
                  summary |-> parsed[i].summary,
                  email_id |-> email_data.id, email_date |-> email_data.date]]
             \o parse_all(Tail(emails))

\* variant: the comparison of the loop is reversed
RECURSIVE latest_date_reversed(_, _)
latest_date_reversed(emails, latest) ==
    IF emails = << >> THEN latest
    ELSE latest_date_reversed(Tail(emails),
                     IF latest = << >> \/ Head(emails).date < latest[1]
                     THEN << Head(emails).date >> ELSE latest)

\* step 2 of fetch: latest_email_date_ts over the loop
RECURSIVE latest_date(_, _)
latest_date(emails, latest) ==
    IF emails = << >> THEN latest
    ELSE latest_date(Tail(emails),
                     IF latest = << >> \/ Head(emails).date > latest[1]
                     THEN << Head(emails).date >> ELSE latest)

\* ---------------------------------------------------------------- scorer.py
\* what chain.invoke can do for one article: a verdict, or raise
LLMOutcomes == {"High", "Medium", "Low", "raise"}

\* variant: the keyword is compared as configured, without lower()
first_excluded_case_sensitive(kws, title_local, summary_local) ==
    LET m == {k \in 1..Len(kws) : \/ substring_in(kws[k], lower(title_local))
                                  \/ substring_in(kws[k], lower(summary_local))}
    IN  IF m = {} THEN << >>
        ELSE << kws[CHOOSE k \in m : \A j \in m : k <= j] >>

\* the first configured exclusion keyword found in title + " " + summary
RECURSIVE first_excluded(_, _, _)
first_excluded(kws, title_local, summary_local) ==
    IF kws = << >> THEN << >>
    ELSE IF \/ substring_in(lower(Head(kws)), lower(title_local))
            \/ substring_in(lower(Head(kws)), lower(summary_local))
         THEN << Head(kws) >>
         ELSE first_excluded(Tail(kws), title_local, summary_local)

\* variant: a call that raises leaves the row without a verdict
score_one_raise_unmarked(row_dict, llm_outcome) ==
    LET title_local == IF row_dict.title # NaN THEN row_dict.title ELSE ""
        summary_local == IF row_dict.summary # NaN THEN row_dict.summary ELSE ""
        ex_kw == first_excluded(exclude_keywords, title_local, summary_local)
    IN  IF ex_kw # << >>
        THEN [hash |-> row_dict.hash, score |-> "Low",
              reason |-> "Auto-excluded by keyword: " \o ex_kw[1]]
        ELSE IF llm_outcome # "raise"
        THEN [hash |-> row_dict.hash, score |-> llm_outcome,
              reason |-> "reason for " \o llm_outcome]
        ELSE [hash |-> row_dict.hash, score |-> NaN, reason |-> NaN]

\* score_articles.score_one
score_one(row_dict, llm_outcome) ==
    LET title_local == IF row_dict.title # NaN THEN row_dict.title ELSE ""
        summary_local == IF row_dict.summary # NaN THEN row_dict.summary ELSE ""
        ex_kw == first_excluded(exclude_keywords, title_local, summary_local)
    IN  IF ex_kw # << >>
        THEN [hash |-> row_dict.hash, score |-> "Low",
              reason |-> "Auto-excluded by keyword: " \o ex_kw[1]]
        ELSE IF llm_outcome # "raise"
        THEN [hash |-> row_dict.hash, score |-> llm_outcome,
              reason |-> "reason for " \o llm_outcome]
        ELSE [hash |-> row_dict.hash, score |-> "Error", reason |-> "llm call failed"]

\* score_one reaches chain.invoke only when no exclusion keyword returned first
chain_invoked(row_dict) ==
    LET title_local == IF row_dict.title # NaN THEN row_dict.title ELSE ""
        summary_local == IF row_dict.summary # NaN THEN row_dict.summary ELSE ""
    IN  first_excluded(exclude_keywords, title_local, summary_local) = << >>

\* scoring.parallel.enable with workers > 1, the pool failing before any
\* verdict is appended, or the plain loop
ScoringModes == {"sequential", "parallel", "fallback"}

\* the orders in which as_completed can yield the futures of n rows; the
\* plain loop and the fallback loop follow the rows
completion_orders(mode, n) ==
    IF mode = "parallel"
    THEN {o \in [1..n -> 1..n] : \A i, j \in 1..n : i # j => o[i] # o[j]}
    ELSE {[i \in 1..n |-> i]}

\* score_articles: the list results, one verdict appended per row
score_results(articles_df, llm, order) ==
    [k \in 1..Len(articles_df) |->
        score_one(articles_df[order[k]], llm[articles_df[order[k]].hash])]

\* variant: the verdicts are written back by position in results
merge_scores_by_position(articles_df, scored_df) ==
    [i \in 1..Len(articles_df) |->
        [articles_df[i] EXCEPT !.score = scored_df[i].score,
                               !.reason = scored_df[i].reason]]

\* articles_df.merge(scored_df, on='hash', how='left') and the fillna of
\* score and reason
merge_scores(articles_df, scored_df) ==
    [i \in 1..Len(articles_df) |->
        LET r == articles_df[i]
            u == scored_df[CHOOSE j \in 1..Len(scored_df) : scored_df[j].hash = r.hash]
        IN  [r EXCEPT !.score = IF u.score # NaN THEN u.score ELSE @,
                      !.reason = IF u.reason # NaN THEN u.reason ELSE @]]

\* score_articles run through the plain loop: the frame with the verdicts
\* merged back on hash
score_articles(articles_df, llm) ==
    merge_scores(articles_df,
                 score_results(articles_df, llm, [i \in 1..Len(articles_df) |-> i]))

\* what fetching and parsing one link can give
FetchOutcomes == {"text", "no_text", "raise"}

\* variant: a failed download leaves full_text_summary missing
enrich_articles_failure_unmarked(articles_df, web) ==
    [i \in 1..Len(articles_df) |->
        LET r == articles_df[i]
            o == web[r.hash]
        IN  [r EXCEPT !.full_text_summary =
                IF r.link = NaN THEN NaN
                ELSE IF o = "text" THEN "full text"
                ELSE IF o = "no_text" THEN "Could not retrieve full text."
                ELSE NaN]]

\* enrich_articles_with_web_content
enrich_articles_with_web_content(articles_df, web) ==
    [i \in 1..Len(articles_df) |->
        LET r == articles_df[i]
            o == web[r.hash]
        IN  [r EXCEPT !.full_text_summary =
                IF r.link = NaN THEN NaN
                ELSE IF o = "text" THEN "full text"
                ELSE IF o = "no_text" THEN "Could not retrieve full text."
                ELSE "Error retrieving full text: e"]]

\* the rows for which enrich_articles_with_web_content builds an Article and
\* downloads it: those with a link
links_fetched(articles_df) ==
    {articles_df[i].hash : i \in {j \in 1..Len(articles_df) : articles_df[j].link # NaN}}

\* config['scoring']['high_threshold'], ['medium_threshold']
high_threshold == "High"
medium_threshold == "Medium"

\* -------------------------------------------------------- report_builder.py
\* score_order: the rank of a score as a category; a score outside the
\* categories has no category and sorts last
score_cat(score) ==
    CASE score = high_threshold -> 1
      [] score = medium_threshold -> 2
      [] score = "Low" -> 3
      [] OTHER -> 4

\* variant: within a tier the oldest email comes first
report_before_oldest_first(a, b) ==
    \/ score_cat(a.score) < score_cat(b.score)
    \/ score_cat(a.score) = score_cat(b.score) /\ a.email_date < b.email_date

\* a sorts strictly before b under by=['score_cat', 'email_date'],
\* ascending=[True, False]
report_before(a, b) ==
    \/ score_cat(a.score) < score_cat(b.score)
    \/ score_cat(a.score) = score_cat(b.score) /\ a.email_date > b.email_date

\* sort_values on the two keys; rows equal on both keep their order
RECURSIVE sort_values(_)
sort_values(df) ==
    IF df = << >> THEN << >>
    ELSE LET n == Len(df)
             e == df[n]
             t == sort_values(SubSeq(df, 1, n - 1))
             k == Cardinality({i \in 1..Len(t) : ~report_before(e, t[i])})
         IN  SubSeq(t, 1, k) \o << e >> \o SubSeq(t, k + 1, Len(t))

\* get_articles_for_report: the rows scored High or Medium, sorted
get_articles_for_report(state, rows) ==
    IF state # "ok" THEN << >>
    ELSE sort_values(SelectSeq(read_csv(rows),
                               LAMBDA r : r.score \in {high_threshold, medium_threshold}))

\* ---------------------------------------------------------------- cli.py
\* variant: every stored row is handed to the scorer
unscored_articles_all(articles_for_scoring_df) == articles_for_scoring_df

\* articles_for_scoring_df[articles_for_scoring_df['score'].isna()]
unscored_articles(articles_for_scoring_df) ==
    SelectSeq(articles_for_scoring_df, LAMBDA r : r.score = NaN)

\* variant: every row without full_text_summary, whatever its score
needs_enrichment_any_tier(articles_for_enrichment_df) ==
    SelectSeq(articles_for_enrichment_df, LAMBDA r : r.full_text_summary = NaN)

\* the rows with no full_text_summary and a score in the target tiers
needs_enrichment(articles_for_enrichment_df) ==
    SelectSeq(articles_for_enrichment_df,
              LAMBDA r : /\ r.full_text_summary = NaN
                         /\ r.score \in {high_threshold, medium_threshold})

\* ------------------------------------------------------- the steps of fetch
\* --since as given on the command line: absent, unparsable, or a timestamp
SinceInputs ==
    {[kind |-> "none", value |-> 0], [kind |-> "bad", value |-> 0]}
        \cup {[kind |-> "timestamp", value |-> d] : d \in Dates}

Init ==
    /\ mailbox = {}
    /\ csvState = "absent"
    /\ csv = << >>
    /\ db = {}
    /\ lastRunFile = << >>
    /\ pc = "idle"
    /\ runs = 0
    /\ start_timestamp = << >>
    /\ listed = {}
    /\ raw_emails = << >>
    /\ all_parsed_articles = << >>
    /\ latest_email_date_ts = << >>
    /\ enable_web_article = FALSE
    /\ submitted = {}
    /\ outcome = "none"
    /\ save_returned = << >>
    /\ scoring_mode = "none"
    /\ results = << >>
    /\ llm_calls = << >>
    /\ web_fetched = {}
    /\ write_failed = FALSE
    /\ api_batch = << >>
    /\ report = << >>

\* fetch, up to step 1: the fetch window (cli.py 24-46)
StartFetch ==
    /\ pc = "idle"
    /\ runs < MaxRuns
    /\ runs' = runs + 1
    /\ \E since \in SinceInputs :
        /\ IF since.kind = "bad"
           THEN /\ pc' = "idle"
                /\ outcome' = "exit_1"
                /\ start_timestamp' = << >>
           ELSE /\ pc' = "fetch"
                /\ outcome' = "running"
                /\ start_timestamp' = IF since.kind = "timestamp" THEN << since.value >>
                                      ELSE get_last_run_timestamp(lastRunFile)
    /\ listed' = {}
    /\ raw_emails' = << >>
    /\ all_parsed_articles' = << >>
    /\ latest_email_date_ts' = << >>
    /\ submitted' = {}
    /\ enable_web_article' = FALSE
    /\ save_returned' = << >>
    /\ scoring_mode' = "none"
    /\ results' = << >>
    /\ llm_calls' = << >>
    /\ web_fetched' = {}
    /\ write_failed' = FALSE
    /\ report' = << >>
    /\ UNCHANGED << mailbox, csvState, csv, db, lastRunFile, api_batch >>

\* variant: an empty result does not end the run
no_new_emails_never(emails) == FALSE

\* "if not raw_emails" (cli.py 54)
no_new_emails(emails) == emails = << >>

\* fetch, step 1: the mail source is queried (cli.py 48-57)
FetchEmails ==
    /\ pc = "fetch"
    /\ \E delivered \in SUBSET (Mailbox \ mailbox) :
        /\ mailbox' = mailbox \cup delivered
        /\ listed' = query_matches(mailbox', start_timestamp)
        /\ raw_emails' \in {get_scholar_alert_emails(message_ids, failed) :
                                message_ids \in listings(listed'),
                                failed \in SUBSET listed'}
    /\ IF no_new_emails(raw_emails')
       THEN pc' = "idle" /\ outcome' = "no_new_emails"
       ELSE pc' = "parse" /\ outcome' = outcome
    /\ UNCHANGED << csvState, csv, db, lastRunFile, runs, start_timestamp,
                    all_parsed_articles, latest_email_date_ts,
                    enable_web_article, submitted, save_returned, scoring_mode,
                    results, llm_calls, web_fetched, write_failed, api_batch, report >>

\* fetch, step 2: the emails are parsed (cli.py 59-77)
ParseEmails ==
    /\ pc = "parse"
    /\ all_parsed_articles' = parse_all(raw_emails)
    /\ latest_email_date_ts' = latest_date(raw_emails, << >>)
    /\ IF all_parsed_articles' = << >>
       THEN /\ pc' = "idle"
            /\ outcome' = "no_articles"
            /\ lastRunFile' = IF truthy(latest_email_date_ts')
                              THEN update_last_run_timestamp(latest_email_date_ts'[1])
                              ELSE lastRunFile
       ELSE /\ pc' = "save"
            /\ outcome' = outcome
            /\ lastRunFile' = lastRunFile
    /\ UNCHANGED << mailbox, csvState, csv, db, runs, start_timestamp, listed, raw_emails,
                    enable_web_article, submitted, save_returned, scoring_mode,
                    results, llm_calls, web_fetched, write_failed, api_batch, report >>

\* fetch, step 3: the articles are stored (cli.py 80-93)
SaveArticles ==
    /\ pc = "save"
    /\ LET saved == save_articles(csvState, csv, db, all_parsed_articles, runs)
       IN  /\ csvState' = saved.csvState
           /\ csv' = saved.csv
           /\ db' = saved.db
           /\ save_returned' = saved.returned
           /\ IF load_all_articles_from_csv(saved.csvState, saved.csv) = << >>
              THEN /\ pc' = "idle"
                   /\ outcome' = "storage_empty"
                   /\ lastRunFile' = IF truthy(latest_email_date_ts)
                                     THEN update_last_run_timestamp(latest_email_date_ts[1])
                                     ELSE lastRunFile
              ELSE /\ pc' = "score"
                   /\ outcome' = outcome
                   /\ lastRunFile' = lastRunFile
    /\ UNCHANGED << mailbox, runs, start_timestamp, listed, raw_emails, all_parsed_articles,
                    latest_email_date_ts, enable_web_article, submitted, scoring_mode,
                    results, llm_calls, web_fetched, write_failed, api_batch, report >>

\* fetch, step 4: the unscored articles are scored (cli.py 95-112)
ScoreArticles ==
    /\ pc = "score"
    /\ LET articles_for_scoring_df == load_all_articles_from_csv(csvState, csv)
           unscored_articles_df == unscored_articles(articles_for_scoring_df)
       IN  IF unscored_articles_df = << >>
           THEN /\ csv' = csv
                /\ UNCHANGED << submitted, scoring_mode, results, llm_calls >>
           ELSE \E llm \in [hash_column(unscored_articles_df) -> LLMOutcomes],
                   mode \in ScoringModes :
                \E order \in completion_orders(mode, Len(unscored_articles_df)) :
                   LET scored_articles_df ==
                           merge_scores(unscored_articles_df,
                                        score_results(unscored_articles_df, llm, order))
                   IN  /\ submitted' = hash_column(unscored_articles_df)
                       /\ scoring_mode' = mode
                       /\ results' = score_results(unscored_articles_df, llm, order)
                       /\ llm_calls' =
                            [h \in {unscored_articles_df[i].hash :
                                       i \in {j \in 1..Len(unscored_articles_df) :
                                                chain_invoked(unscored_articles_df[j])}}
                                |-> llm[h]]
                       /\ csv' = update_article_scores_in_csv(csvState, csv,
                                   SelectSeq(scored_articles_df, LAMBDA r : r.score # NaN))
    /\ pc' = "enrich"
    /\ UNCHANGED << mailbox, csvState, db, lastRunFile, runs, start_timestamp, listed,
                    raw_emails, all_parsed_articles, latest_email_date_ts,
                    enable_web_article, outcome, save_returned, web_fetched,
                    write_failed, api_batch, report >>

\* fetch, step 5: optional enrichment (cli.py 114-134)
EnrichArticles ==
    /\ pc = "enrich"
    /\ LET articles_for_enrichment_df == load_all_articles_from_csv(csvState, csv)
           needs_enrichment_df == needs_enrichment(articles_for_enrichment_df)
       IN  \E enable \in BOOLEAN :
           /\ enable_web_article' = enable
           /\ IF ~enable \/ needs_enrichment_df = << >>
              THEN csv' = csv /\ web_fetched' = web_fetched
              ELSE \E web \in [hash_column(needs_enrichment_df) -> FetchOutcomes] :
                   LET enriched_df ==
                           enrich_articles_with_web_content(needs_enrichment_df, web)
                   IN  /\ web_fetched' = links_fetched(needs_enrichment_df)
                       /\ csv' = update_article_enrichment_in_csv(csvState, csv,
                                   SelectSeq(enriched_df,
                                             LAMBDA r : r.full_text_summary # NaN))
    /\ pc' = "report"
    /\ UNCHANGED << mailbox, csvState, db, lastRunFile, runs, start_timestamp, listed,
                    raw_emails, all_parsed_articles, latest_email_date_ts,
                    submitted, outcome, save_returned, scoring_mode,
                    results, llm_calls, write_failed, api_batch, report >>

\* fetch, step 6: the report is built from the file; the store is only read
\* (cli.py 136-155).  get_articles_for_report has no use for start_timestamp.
BuildReport ==
    /\ pc = "report"
    /\ report' = get_articles_for_report(csvState, csv)
    /\ pc' = "update_ts"
    /\ UNCHANGED << mailbox, csvState, csv, db, lastRunFile, runs, start_timestamp, listed,
                    raw_emails, all_parsed_articles, latest_email_date_ts,
                    enable_web_article, submitted, outcome, save_returned, scoring_mode,
                    results, llm_calls, web_fetched, write_failed, api_batch >>

\* fetch, step 7: the last-run timestamp is written (cli.py 157-169)
UpdateTimestamp ==
    /\ pc = "update_ts"
    /\ lastRunFile' = IF truthy(latest_email_date_ts)
                      THEN update_last_run_timestamp(latest_email_date_ts[1])
                      ELSE lastRunFile
    /\ pc' = "idle"
    /\ outcome' = "completed"
    /\ scoring_mode' = "none"
    /\ results' = << >>
    /\ llm_calls' = << >>
    /\ web_fetched' = {}
    /\ UNCHANGED << mailbox, csvState, csv, db, runs, start_timestamp, listed, raw_emails,
                    all_parsed_articles, latest_email_date_ts,
                    enable_web_article, submitted, save_returned, write_failed,
                    api_batch, report >>

Next ==
    \/ StartFetch
    \/ FetchEmails
    \/ ParseEmails
    \/ SaveArticles
    \/ ScoreArticles
    \/ EnrichArticles
    \/ BuildReport
    \/ UpdateTimestamp

Spec == Init /\ [][Next]_vars

\* ------------------------------------------------- storage faults
\* The file is damaged between two runs (truncated, garbled, or rewritten
\* without its hash and title columns): pd.read_csv raises or gives a frame
\* the code cannot use.  The records written before are still on the disk.
CorruptCsv ==
    /\ pc = "idle"
    /\ runs < MaxRuns
    /\ csvState = "ok"
    /\ csvState' = "corrupt"
    /\ UNCHANGED << mailbox, csv, db, lastRunFile, pc, runs, start_timestamp, listed,
                    raw_emails, all_parsed_articles, latest_email_date_ts,
                    enable_web_article, submitted, outcome, save_returned, scoring_mode,
                    results, llm_calls, web_fetched, write_failed, api_batch, report >>

\* fetch, step 3, when combined_df.to_csv raises (storage.py:103 is outside
\* any try): the exception leaves save_articles and cli.fetch
SaveArticlesCsvWriteFails ==
    /\ pc = "save"
    /\ ~write_failed
    /\ write_failed' = TRUE
    /\ pc' = "idle"
    /\ outcome' = "crashed"
    /\ UNCHANGED << mailbox, csvState, csv, db, lastRunFile, runs, start_timestamp, listed,
                    raw_emails, all_parsed_articles, latest_email_date_ts,
                    enable_web_article, submitted, save_returned, scoring_mode,
                    results, llm_calls, web_fetched, api_batch, report >>

\* fetch, step 3, when table.insert_all and then every table.insert raise: the
\* exceptions are printed (storage.py 127-142) and the run goes on
SaveArticlesInsertFails ==
    /\ pc = "save"
    /\ ~write_failed
    /\ save_new_articles_df(csvState, csv, all_parsed_articles, runs) # << >>
    /\ LET saved == save_articles(csvState, csv, db, all_parsed_articles, runs)
       IN  /\ csvState' = saved.csvState
           /\ csv' = saved.csv
           /\ save_returned' = saved.returned
    /\ db' = db
    /\ write_failed' = TRUE
    /\ pc' = "score"
    /\ UNCHANGED << mailbox, lastRunFile, runs, start_timestamp, listed, raw_emails,
                    all_parsed_articles, latest_email_date_ts, enable_web_article,
                    submitted, outcome, scoring_mode, results, llm_calls, web_fetched,
                    api_batch, report >>

\* fetch, step 4, when the to_csv of update_article_scores_in_csv raises: the
\* exception is printed (storage.py 197-198) and the run goes on
ScoreArticlesWriteFails ==
    /\ pc = "score"
    /\ ~write_failed
    /\ csvState = "ok"
    /\ LET unscored_articles_df ==
               unscored_articles(load_all_articles_from_csv(csvState, csv))
       IN  /\ unscored_articles_df # << >>
           /\ \E llm \in [hash_column(unscored_articles_df) -> LLMOutcomes],
                 mode \in ScoringModes :
               \E order \in completion_orders(mode, Len(unscored_articles_df)) :
                  /\ submitted' = hash_column(unscored_articles_df)
                  /\ scoring_mode' = mode
                  /\ results' = score_results(unscored_articles_df, llm, order)
                  /\ llm_calls' =
                       [h \in {unscored_articles_df[i].hash :
                                  i \in {j \in 1..Len(unscored_articles_df) :
                                           chain_invoked(unscored_articles_df[j])}}
                           |-> llm[h]]
    /\ write_failed' = TRUE
    /\ pc' = "enrich"
    /\ UNCHANGED << mailbox, csvState, csv, db, lastRunFile, runs, start_timestamp, listed,
                    raw_emails, all_parsed_articles, latest_email_date_ts,
                    enable_web_article, outcome, save_returned, web_fetched, api_batch,
                    report >>

\* fetch, step 5, when the to_csv of update_article_enrichment_in_csv raises:
\* the exception is printed (storage.py 217-218) and the run goes on
EnrichArticlesWriteFails ==
    /\ pc = "enrich"
    /\ ~write_failed
    /\ csvState = "ok"
    /\ LET needs_enrichment_df ==
               needs_enrichment(load_all_articles_from_csv(csvState, csv))
       IN  /\ needs_enrichment_df # << >>
           /\ web_fetched' = links_fetched(needs_enrichment_df)
    /\ enable_web_article' = TRUE
    /\ write_failed' = TRUE
    /\ pc' = "report"
    /\ UNCHANGED << mailbox, csvState, csv, db, lastRunFile, runs, start_timestamp, listed,
                    raw_emails, all_parsed_articles, latest_email_date_ts,
                    submitted, outcome, save_returned, scoring_mode,
                    results, llm_calls, api_batch, report >>

NextFaults ==
    \/ Next
    \/ CorruptCsv
    \/ SaveArticlesCsvWriteFails
    \/ SaveArticlesInsertFails
    \/ ScoreArticlesWriteFails
    \/ EnrichArticlesWriteFails

\* the pipeline with a file that can be damaged and writes that can fail
SpecFaults == Init /\ [][NextFaults]_vars

\* ------------------------------------- storage.update_article_scores_in_csv
\* The update function called on its own, with any frame of verdicts.
\* the frames handed to the call: one or two verdicts, for the hashes of
\* "Quantum Catalysis" and "Fast DFT" and for a hash that is never stored
UpdateEntries ==
    {[hash |-> get_title_hash(t), score |-> v, reason |-> "reason for " \o v] :
        t \in {"Quantum Catalysis", "Fast DFT", "No Link"}, v \in {"High", "Low"}}

UpdateBatches ==
    {<< e >> : e \in UpdateEntries} \cup {<< e, f >> : e, f \in UpdateEntries}

\* the stores a first run leaves: the articles of m1, or of m3 and m1, saved
\* and scored
InitUpdate ==
    /\ \E emails \in {get_scholar_alert_emails(ids, {}) :
                        ids \in {<< CHOOSE m \in Mailbox : m.id = "m1" >>,
                                 << CHOOSE m \in Mailbox : m.id = "m1",
                                    CHOOSE m \in Mailbox : m.id = "m3" >>}} :
        LET saved == save_articles("absent", << >>, {}, parse_all(emails), 1)
        IN  \E llm \in [hash_column(saved.csv) -> LLMOutcomes] :
              /\ mailbox = {emails[i] : i \in 1..Len(emails)}
              /\ csvState = saved.csvState
              /\ csv = update_article_scores_in_csv(saved.csvState, saved.csv,
                           score_articles(read_csv(saved.csv), llm))
              /\ db = saved.db
              /\ lastRunFile = update_last_run_timestamp(latest_date(emails, << >>)[1])
    /\ pc = "idle"
    /\ runs = 1
    /\ start_timestamp = << >>
    /\ listed = {}
    /\ raw_emails = << >>
    /\ all_parsed_articles = << >>
    /\ latest_email_date_ts = << >>
    /\ enable_web_article = FALSE
    /\ submitted = {}
    /\ outcome = "completed"
    /\ save_returned = << >>
    /\ scoring_mode = "none"
    /\ results = << >>
    /\ llm_calls = << >>
    /\ web_fetched = {}
    /\ write_failed = FALSE
    /\ api_batch = << >>
    /\ report = << >>

\* one call update_article_scores_in_csv(scored_articles_df)
UpdateScoresCall ==
    /\ pc = "idle"
    /\ api_batch = << >>
    /\ report = << >>
    /\ \E scored_articles_df \in UpdateBatches :
        /\ api_batch' = scored_articles_df
        /\ csv' = update_article_scores_in_csv(csvState, csv, scored_articles_df)
    /\ UNCHANGED << mailbox, csvState, db, lastRunFile, pc, runs, start_timestamp, listed,
                    raw_emails, all_parsed_articles, latest_email_date_ts,
                    enable_web_article, submitted, outcome, save_returned, scoring_mode,
                    results, llm_calls, web_fetched, write_failed, report >>

SpecUpdate == InitUpdate /\ [][UpdateScoresCall]_vars

\* ------------------------------------------ report_builder on any file
\* The report command: get_articles_for_report on a file of up to
\* MaxReportRows rows with any scores and email dates.
ReportTitles == << "Quantum Catalysis", "Fast DFT", "Battery Review", "No Link" >>
ReportDates == {5, 10, 20}
ReportScores == {"High", "Medium", "Low", "Error", NaN}

\* the row save_articles wrote for the k-th title, with its verdict
report_row(k, date, score) ==
    [new_articles_row([title |-> ReportTitles[k], link |-> "l", summary |-> "s",
                       email_id |-> "m", email_date |-> date], 1)
        EXCEPT !.score = score,
               !.reason = IF score = NaN THEN NaN ELSE "reason for " \o score]

\* a frame of n rows with the given dates and scores
report_frame(n, date, score) == [k \in 1..n |-> report_row(k, date[k], score[k])]

InitReport ==
    /\ \E n \in 0..MaxReportRows :
          \E date \in [1..n -> ReportDates], score \in [1..n -> ReportScores] :
             LET df == report_frame(n, date, score)
             IN  /\ csvState = IF df = << >> THEN "absent" ELSE "ok"
                 /\ csv = to_csv(df)
                 /\ db = {[df[k] EXCEPT !.score = NaN, !.reason = NaN] : k \in 1..Len(df)}
    /\ mailbox = {}
    /\ lastRunFile = << >>
    /\ pc = "idle"
    /\ runs = 0
    /\ start_timestamp = << >>
    /\ listed = {}
    /\ raw_emails = << >>
    /\ all_parsed_articles = << >>
    /\ latest_email_date_ts = << >>
    /\ enable_web_article = FALSE
    /\ submitted = {}
    /\ outcome = "none"
    /\ save_returned = << >>
    /\ scoring_mode = "none"
    /\ results = << >>
    /\ llm_calls = << >>
    /\ web_fetched = {}
    /\ write_failed = FALSE
    /\ api_batch = << >>
    /\ report = << >>

\* report_command: the selection of the standalone report (cli.py 204-219)
ReportCommand ==
    /\ pc = "idle"
    /\ outcome = "none"
    /\ report' = get_articles_for_report(csvState, csv)
    /\ outcome' = "reported"
    /\ UNCHANGED << mailbox, csvState, csv, db, lastRunFile, pc, runs, start_timestamp,
                    listed, raw_emails, all_parsed_articles, latest_email_date_ts,
                    enable_web_article, submitted, save_returned, scoring_mode,
                    results, llm_calls, web_fetched, write_failed, api_batch >>

SpecReport == InitReport /\ [][ReportCommand]_vars

\* ------------------------------------------------- last_run.txt on its own
\* The watermark file under update-ts, a fetch reading it, and edits made to
\* the file from outside the program.
WatermarkInputs == {0, 1, 2, 3, 4}
ForeignTexts == {"", "not a number", " 2.0\n"}

InitWatermark ==
    /\ mailbox = {}
    /\ csvState = "absent"
    /\ csv = << >>
    /\ db = {}
    /\ lastRunFile = << >>
    /\ pc = "idle"
    /\ runs = 0
    /\ start_timestamp = << >>
    /\ listed = {}
    /\ raw_emails = << >>
    /\ all_parsed_articles = << >>
    /\ latest_email_date_ts = << >>
    /\ enable_web_article = FALSE
    /\ submitted = {}
    /\ outcome = "none"
    /\ save_returned = << >>
    /\ scoring_mode = "none"
    /\ results = << >>
    /\ llm_calls = << >>
    /\ web_fetched = {}
    /\ write_failed = FALSE
    /\ api_batch = << >>
    /\ report = << >>

\* update_timestamp_command with --value ts_to_set; latest_email_date_ts
\* keeps the value handed to update_last_run_timestamp
UpdateTsCommand ==
    /\ pc = "idle"
    /\ \E ts_to_set \in WatermarkInputs :
          /\ lastRunFile' = update_last_run_timestamp(ts_to_set)
          /\ latest_email_date_ts' = << ts_to_set >>
    /\ outcome' = "timestamp_set"
    /\ UNCHANGED << mailbox, csvState, csv, db, pc, runs, start_timestamp, listed,
                    raw_emails, all_parsed_articles, enable_web_article, submitted,
                    save_returned, scoring_mode, results, llm_calls, web_fetched,
                    write_failed, api_batch, report >>

\* update_timestamp_command when open(LAST_RUN_FILE, "w") raises: the command
\* ends with the traceback and the file is as it was
UpdateTsUnwritable ==
    /\ pc = "idle"
    /\ ~write_failed
    /\ write_failed' = TRUE
    /\ UNCHANGED << mailbox, csvState, csv, db, lastRunFile, pc, runs, start_timestamp,
                    listed, raw_emails, all_parsed_articles, latest_email_date_ts,
                    enable_web_article, submitted, outcome, save_returned,
                    scoring_mode, results, llm_calls, web_fetched, api_batch, report >>

\* the file is removed or rewritten by hand
EditLastRunFile ==
    /\ pc = "idle"
    /\ lastRunFile' \in {<< >>} \cup {<< text >> : text \in ForeignTexts}
    /\ outcome' = "edited"
    /\ UNCHANGED << mailbox, csvState, csv, db, pc, runs, start_timestamp, listed,
                    raw_emails, all_parsed_articles, latest_email_date_ts,
                    enable_web_article, submitted, save_returned, scoring_mode,
                    results, llm_calls, web_fetched, write_failed, api_batch, report >>

\* fetch without --since reads the watermark (cli.py 42-43)
ReadTimestamp ==
    /\ pc = "idle"
    /\ start_timestamp' = get_last_run_timestamp(lastRunFile)
    /\ pc' = "fetch"
    /\ UNCHANGED << mailbox, csvState, csv, db, lastRunFile, runs, listed, raw_emails,
                    all_parsed_articles, latest_email_date_ts, enable_web_article,
                    submitted, outcome, save_returned, scoring_mode, results,
                    llm_calls, web_fetched, write_failed, api_batch, report >>

NextWatermark ==
    \/ UpdateTsCommand
    \/ UpdateTsUnwritable
    \/ EditLastRunFile
    \/ ReadTimestamp

SpecWatermark == InitWatermark /\ [][NextWatermark]_vars

\* --------------------------------------------- titles through parse and save
\* Steps 2 and 3 of fetch on an email that carries two entries with any of
\* the titles below.
TitleInputs == {"Quantum Catalysis", "quantum catalysis", "Fast DFT", " Fast DFT ",
                "Fast  DFT", "Battery Review"}

\* an alert email with two entries
title_email(t1, t2, date) ==
    [id |-> "mt", date |-> date,
     body_html |-> << [title |-> t1, link |-> "la", summary |-> "sa"],
                      [title |-> t2, link |-> "lb", summary |-> "sb"] >>]

\* fetch, steps 2 and 3 on one downloaded email (cli.py 59-83)
IngestTitles ==
    /\ pc = "idle"
    /\ runs < MaxRuns
    /\ runs' = runs + 1
    /\ \E t1, t2 \in TitleInputs :
          /\ raw_emails' = << title_email(t1, t2, runs') >>
          /\ all_parsed_articles' = parse_all(raw_emails')
          /\ LET saved == save_articles(csvState, csv, db, all_parsed_articles', runs')
             IN  /\ csvState' = saved.csvState
                 /\ csv' = saved.csv
                 /\ db' = saved.db
                 /\ save_returned' = saved.returned
    /\ latest_email_date_ts' = latest_date(raw_emails', << >>)
    /\ outcome' = "saved"
    /\ UNCHANGED << mailbox, lastRunFile, pc, start_timestamp, listed, enable_web_article,
                    submitted, scoring_mode, results, llm_calls, web_fetched,
                    write_failed, api_batch, report >>

SpecTitles == Init /\ [][IngestTitles]_vars

\* ------------------------------------------- the report call as written
\* fetch, step 6 with the call of cli.py 143 against the definition of
\* report_builder.py 16: get_articles_for_report(csv_file_path) takes no
\* start_timestamp keyword, so the call raises TypeError and fetch ends with
\* the traceback, before step 7.
BuildReportCall ==
    /\ pc = "report"
    /\ pc' = "idle"
    /\ outcome' = "crashed"
    /\ scoring_mode' = "none"
    /\ results' = << >>
    /\ llm_calls' = << >>
    /\ web_fetched' = {}
    /\ UNCHANGED << mailbox, csvState, csv, db, lastRunFile, runs, start_timestamp, listed,
                    raw_emails, all_parsed_articles, latest_email_date_ts,
                    enable_web_article, submitted, save_returned, write_failed,
                    api_batch, report >>

NextCalls ==
    \/ StartFetch
    \/ FetchEmails
    \/ ParseEmails
    \/ SaveArticles
    \/ ScoreArticles
    \/ EnrichArticles
    \/ BuildReportCall

SpecCalls == Init /\ [][NextCalls]_vars

\* ------------------------------------------------------ interrupted runs
\* The process is stopped (signal, power loss, uncaught exception of a
\* collaborator) after step 3 has written the articles and before step 7
\* has written last_run.txt.  When it is stopped while step 4 or 5 rewrites
\* the file (storage.py 194, 215: to_csv truncates, then writes), the file
\* can be left unreadable.  The memory of the process is gone.  It is the
\* first run that is stopped, and one run follows it: the runs in between
\* are counted as made.
Interrupt ==
    /\ pc \in {"score", "enrich", "report", "update_ts"}
    /\ runs = 1
    /\ runs' = MaxRuns - 1
    /\ \E torn \in BOOLEAN :
          csvState' = IF /\ torn
                         /\ \/ /\ pc = "score"
                               /\ unscored_articles(load_all_articles_from_csv(csvState, csv))
                                      # << >>
                            \/ /\ pc = "enrich"
                               /\ needs_enrichment(load_all_articles_from_csv(csvState, csv))
                                      # << >>
                      THEN "corrupt"
                      ELSE csvState
    /\ pc' = "idle"
    /\ outcome' = "interrupted"
    /\ start_timestamp' = << >>
    /\ listed' = {}
    /\ raw_emails' = << >>
    /\ all_parsed_articles' = << >>
    /\ latest_email_date_ts' = << >>
    /\ enable_web_article' = FALSE
    /\ submitted' = {}
    /\ save_returned' = << >>
    /\ scoring_mode' = "none"
    /\ results' = << >>
    /\ llm_calls' = << >>
    /\ web_fetched' = {}
    /\ report' = << >>
    /\ UNCHANGED << mailbox, csv, db, lastRunFile, write_failed, api_batch >>

NextInterrupt ==
    \/ Next
    \/ Interrupt

SpecInterrupt == Init /\ [][NextInterrupt]_vars

\* ------------------------------------------------------------------ claims
\* helpers of the statements below
Max(S) == CHOOSE d \in S : \A e \in S : d >= e
Min(S) == CHOOSE d \in S : \A e \in S : d <= e

\* the run has ended on a path that writes last_run.txt
RunWroteTimestamp ==
    pc = "idle" /\ outcome \in {"completed", "no_articles", "storage_empty"}

\* the descriptive cells of a stored row
Descriptive(r) ==
    << r.hash, r.title, r.link, r.summary, r.email_id, r.email_date, r.added_at >>

\* C1: idempotent ingestion.  Right after save_articles(L) has run on any
\* reachable store, a second save_articles(L) leaves the file and the table
\* exactly as the first call left them: it inserts nothing.
C1_IdempotentIngestion ==
    pc = "score" =>
        LET again == save_articles(csvState, csv, db, all_parsed_articles, runs + 1)
        IN  << again.csvState, again.csv, again.db >> = << csvState, csv, db >>

\* C1 witness: a run has just appended rows to a store that already had rows,
\* from a batch with more than one article.
C1_Witness ==
    /\ pc = "score"
    /\ Len(all_parsed_articles) >= 2
    /\ \E i, j \in 1..Len(csv) : csv[i].added_at < runs /\ csv[j].added_at = runs

\* C2: key uniqueness.  No two rows of the file and no two rows of the table
\* have the same hash, or titles that are equal after lower-casing.
C2_KeyUnique ==
    /\ \A i, j \in 1..Len(csv) :
          (csv[i].hash = csv[j].hash \/ lower(csv[i].title) = lower(csv[j].title))
              => i = j
    /\ \A r1, r2 \in db :
          (r1.hash = r2.hash \/ lower(r1.title) = lower(r2.title)) => r1 = r2

\* C2 witness: a batch carried two titles that differ only in case, and the
\* store has been through a score update and an enrichment update.
C2_Witness ==
    /\ pc = "report"
    /\ \E i, j \in 1..Len(all_parsed_articles) :
          /\ all_parsed_articles[i].title # all_parsed_articles[j].title
          /\ lower(all_parsed_articles[i].title) = lower(all_parsed_articles[j].title)
    /\ \E i \in 1..Len(csv) : csv[i].score # "" /\ csv[i].full_text_summary # ""

\* C3: the persisted watermark never regresses: a value written to
\* last_run.txt is never smaller than the value it replaces.
C3_WatermarkNeverRegresses ==
    [][lastRunFile # << >> =>
          /\ lastRunFile' # << >>
          /\ get_last_run_timestamp(lastRunFile')[1]
                 >= get_last_run_timestamp(lastRunFile)[1]]_vars

\* C4: no unmerged item is skipped: when a run has written watermark W, every
\* message the mail source listed for the run with a date <= W has all its
\* articles in the store.
C4_NoUnmergedItemSkipped ==
    RunWroteTimestamp =>
        \A m \in listed :
            m.date <= get_last_run_timestamp(lastRunFile)[1] =>
                \A k \in 1..Len(parse_scholar_email_html(m.body_html)) :
                    get_title_hash(parse_scholar_email_html(m.body_html)[k].title)
                        \in hash_column(csv)

C6_FirstOccurrenceWins ==
    pc = "score" =>
        \A i \in 1..Len(csv) :
            csv[i].added_at = runs =>
                LET same == {k \in 1..Len(all_parsed_articles) :
                                get_title_hash(all_parsed_articles[k].title) = csv[i].hash}
                    first == Min({all_parsed_articles[k].email_date : k \in same})
                IN  /\ csv[i].email_date = first
                    /\ \E k \in same : /\ all_parsed_articles[k].email_date = first
                                       /\ all_parsed_articles[k].email_id = csv[i].email_id

\* the indexes of batch L that appendNew must insert into a store holding the
\* hashes H: the first occurrence of each hash that is not in H
FirstNew(L, H) ==
    {i \in 1..Len(L) :
        /\ get_title_hash(L[i].title) \notin H
        /\ \A j \in 1..(i-1) : get_title_hash(L[j].title) # get_title_hash(L[i].title)}

\* the k-th smallest element of a set of indexes
Kth(F, k) == CHOOSE i \in F : Cardinality({j \in F : j <= i}) = k

\* C7: appendNew result.  The file after save_articles(L) is the file before,
\* followed by the first record of L for each hash not yet stored, in batch
\* order; the table gains exactly those hashes and loses no row.
C7_AppendNewResult ==
    [][pc = "save" =>
          LET L == all_parsed_articles
              F == FirstNew(L, hash_column(csv))
              n == Len(csv)
          IN  /\ Len(csv') = n + Cardinality(F)
              /\ SubSeq(csv', 1, n) = csv
              /\ \A k \in 1..Cardinality(F) :
                    LET a == L[Kth(F, k)]
                        r == csv'[n + k]
                    IN  /\ r.hash = get_title_hash(a.title)
                        /\ r.title = a.title /\ r.link = a.link
                        /\ r.summary = a.summary
                        /\ r.email_id = a.email_id /\ r.email_date = a.email_date
                        /\ r.score = "" /\ r.reason = "" /\ r.full_text_summary = ""
                        /\ r.added_at = runs
              /\ db \subseteq db'
              /\ {r.hash : r \in db'} =
                    {r.hash : r \in db} \cup {get_title_hash(L[i].title) : i \in 1..Len(L)}
    ]_vars

\* C7 witness: a batch of three articles, two with the same hash and one
\* already stored by an earlier run, has just been appended.
C7_Witness ==
    /\ pc = "score"
    /\ Len(all_parsed_articles) = 3
    /\ Cardinality({get_title_hash(all_parsed_articles[i].title) :
                        i \in 1..Len(all_parsed_articles)}) = 2
    /\ Cardinality({i \in 1..Len(csv) : csv[i].added_at = runs}) = 1
    /\ \E i \in 1..Len(csv) : csv[i].added_at < runs

\* C8: descriptive fields are immutable after insert: every stored row keeps
\* its hash, title, link, summary, email_id, email_date and added_at through
\* every later step, in the file and in the table.
C8_DescriptiveImmutable ==
    [][/\ \A i \in 1..Len(csv) :
             \E j \in 1..Len(csv') : Descriptive(csv'[j]) = Descriptive(csv[i])
       /\ \A r \in db : \E q \in db' : Descriptive(q) = Descriptive(r)
    ]_vars

\* C8 witness: a later run's batch carried the hash of a stored row with a
\* different link and provenance, and that row has been scored and enriched.
C8_Witness ==
    /\ pc = "report"
    /\ \E i \in 1..Len(csv), k \in 1..Len(all_parsed_articles) :
          /\ csv[i].added_at < runs
          /\ csv[i].hash = get_title_hash(all_parsed_articles[k].title)
          /\ csv[i].link # all_parsed_articles[k].link
          /\ csv[i].email_id # all_parsed_articles[k].email_id
          /\ csv[i].score # "" /\ csv[i].full_text_summary # ""

\* C9: scoring monotonicity: a row whose score is set keeps its score and
\* reason through every later step, and the scoring stage of a run is handed
\* only rows whose score is still missing.
C9_ScoringMonotone ==
    [][/\ \A i \in 1..Len(csv) :
             csv[i].score # "" =>
                 \E j \in 1..Len(csv') :
                     /\ csv'[j].hash = csv[i].hash
                     /\ csv'[j].score = csv[i].score
                     /\ csv'[j].reason = csv[i].reason
       /\ submitted' # submitted =>
             \A h \in submitted' : \A i \in 1..Len(csv) :
                 csv[i].hash = h => csv[i].score = ""
    ]_vars

\* C9 witness: the scoring stage of a second run has scored a new row while
\* a row scored by the first run was in the store.
C9_Witness ==
    /\ pc = "enrich"
    /\ runs = 2
    /\ submitted # {}
    /\ \E i \in 1..Len(csv) :
          csv[i].hash \notin submitted /\ csv[i].score # "" /\ csv[i].added_at < runs

\* C10: field-merge isolation: the score update of the scoring stage changes
\* nothing but score and reason of the rows in the update batch; it adds,
\* removes and reorders no row.
C10_FieldMergeIsolation ==
    [][pc = "score" =>
          /\ Len(csv') = Len(csv)
          /\ \A i \in 1..Len(csv) :
                /\ Descriptive(csv'[i]) = Descriptive(csv[i])
                /\ csv'[i].full_text_summary = csv[i].full_text_summary
                /\ csv[i].hash \notin submitted' => csv'[i] = csv[i]
          /\ db' = db
    ]_vars

\* C10 witness: a score update has been merged into a store that also holds a
\* row outside the update batch, which has enrichment text.
C10_Witness ==
    /\ pc = "enrich"
    /\ submitted # {}
    /\ \E i, j \in 1..Len(csv) :
          /\ csv[i].hash \notin submitted /\ csv[i].full_text_summary # ""
          /\ csv[j].hash \in submitted /\ csv[j].score \in {"High", "Medium", "Low", "Error"}
          /\ i < j

\* a row of the file that the enrichment stage may fetch: no enrichment text
\* yet and a score in the High or Medium tier
Eligible(r) == r.full_text_summary = "" /\ r.score \in {"High", "Medium"}

\* C11: tier gating: the enrichment stage hands a link to the article fetcher
\* only for a row that, when the stage starts, has no full_text_summary and a
\* score of High or Medium; never for Low, Error, unscored or enriched rows.
C11_TierGating ==
    [][\A h \in web_fetched' \ web_fetched :
          \E i \in 1..Len(csv) : csv[i].hash = h /\ Eligible(csv[i])]_vars

\* C11 witness: an enrichment stage has fetched for one row while the store
\* held a row it had to leave alone, scored Low or Error.
C11_Witness ==
    /\ pc = "report"
    /\ web_fetched # {}
    /\ \E i \in 1..Len(csv) :
          csv[i].hash \notin web_fetched /\ csv[i].score \in {"Low", "Error"}

\* C12: enrichment is attempted at most once per row: an enrichment stage
\* leaves every eligible row with a full_text_summary (the text, or a
\* description of the failure), so the row is not eligible again, and a
\* full_text_summary that is set is never cleared or overwritten.
C12_EnrichedAtMostOnce ==
    [][/\ (pc = "enrich" /\ enable_web_article') =>
             \A i \in 1..Len(csv) :
                 Eligible(csv[i]) =>
                     /\ csv'[i].hash = csv[i].hash
                     /\ csv'[i].full_text_summary \in
                            {"full text", "Could not retrieve full text.",
                             "Error retrieving full text: e"}
                     /\ ~Eligible(csv'[i])
       /\ \A i \in 1..Len(csv) :
             csv[i].full_text_summary # "" =>
                 \E j \in 1..Len(csv') :
                     /\ csv'[j].hash = csv[i].hash
                     /\ csv'[j].full_text_summary = csv[i].full_text_summary
    ]_vars

\* C12 witness: the enrichment stage of a second run has recorded a failed
\* download for one row while a row enriched by the first run was in the store.
C12_Witness ==
    /\ pc = "report"
    /\ runs = 2
    /\ \E i, j \in 1..Len(csv) :
          /\ csv[i].hash \notin web_fetched /\ csv[i].full_text_summary = "full text"
          /\ csv[j].hash \in web_fetched
          /\ csv[j].full_text_summary = "Error retrieving full text: e"

\* the scoring stage of the running fetch has merged its verdicts
Scored == pc \in {"enrich", "report", "update_ts"}

\* C13: per-record failure isolation in scoring: a row whose chain.invoke
\* call raised is stored with score Error and the failure as reason, and every
\* other row of the batch has the verdict its own call returned, whether the
\* stage ran the plain loop or the worker pool.
C13_FailureIsolation ==
    Scored =>
        /\ \A h \in DOMAIN llm_calls :
              \E i \in 1..Len(csv) :
                  /\ csv[i].hash = h
                  /\ IF llm_calls[h] = "raise"
                     THEN csv[i].score = "Error" /\ csv[i].reason = "llm call failed"
                     ELSE /\ csv[i].score = llm_calls[h]
                          /\ csv[i].reason = "reason for " \o llm_calls[h]
        /\ \A h \in submitted : \E i \in 1..Len(csv) : csv[i].hash = h /\ csv[i].score # ""

\* C13 witness: the worker pool scored two rows; the call for one raised and
\* the call for the other returned a verdict.
C13_Witness ==
    /\ pc = "enrich"
    /\ scoring_mode = "parallel"
    /\ \E h1, h2 \in DOMAIN llm_calls :
          llm_calls[h1] = "raise" /\ llm_calls[h2] \in {"High", "Medium", "Low"}

\* a configured exclusion keyword occurs, whatever the case, in the title or
\* the summary of a row of the file
ExcludedBy(r) ==
    {k \in 1..Len(exclude_keywords) :
        \/ substring_in(lower(exclude_keywords[k]), lower(r.title))
        \/ substring_in(lower(exclude_keywords[k]), lower(r.summary))}

\* C14: exclusion keywords take precedence: a row handed to the scoring stage
\* whose title or summary contains an exclusion keyword is stored as Low with
\* a reason naming the keyword, and chain.invoke is never called for it.
C14_ExclusionPrecedence ==
    Scored =>
        \A i \in 1..Len(csv) :
            (csv[i].hash \in submitted /\ ExcludedBy(csv[i]) # {}) =>
                /\ csv[i].score = "Low"
                /\ \E k \in ExcludedBy(csv[i]) :
                      csv[i].reason = "Auto-excluded by keyword: " \o exclude_keywords[k]
                /\ csv[i].hash \notin DOMAIN llm_calls

\* C14 witness: one scoring stage was handed a row containing the keyword in
\* another case and a row that went to chain.invoke.
C14_Witness ==
    /\ pc = "enrich"
    /\ llm_calls # << >>
    /\ \E i \in 1..Len(csv) :
          /\ csv[i].hash \in submitted
          /\ ExcludedBy(csv[i]) # {}
          /\ \A k \in 1..Len(exclude_keywords) : exclude_keywords[k] # csv[i].summary

\* C15: order independence of concurrent scoring: whatever the order in which
\* the verdicts complete, and also after the fall back from the worker pool to
\* the plain loop, the file after the score update is the file the plain loop
\* gives, and results holds exactly one verdict per row handed to the stage.
C15_OrderIndependence ==
    [][pc = "score" =>
          LET unscored_articles_df == unscored_articles(read_csv(csv))
              llm == [h \in hash_column(unscored_articles_df) |->
                         IF h \in DOMAIN llm_calls' THEN llm_calls'[h] ELSE "raise"]
          IN  unscored_articles_df # << >> =>
                /\ csv' = update_article_scores_in_csv(csvState, csv,
                              score_articles(unscored_articles_df, llm))
                /\ Len(results') = Len(unscored_articles_df)
                /\ \A h \in hash_column(unscored_articles_df) :
                      Cardinality({k \in 1..Len(results') : results'[k].hash = h}) = 1
    ]_vars

\* C15 witness: the worker pool completed two rows in the reverse of their
\* order in the file, with different verdicts.
C15_Witness ==
    /\ pc = "enrich"
    /\ scoring_mode = "parallel"
    /\ Len(results) = 2
    /\ results[1].score # results[2].score
    /\ \E i, j \in 1..Len(csv) :
          i < j /\ csv[j].hash = results[1].hash /\ csv[i].hash = results[2].hash

\* C16: the two physical stores mirror each other: after every stage the
\* articles table and the file hold the same set of hashes and, for each hash,
\* the same score, reason and full_text_summary.
C16_StoresMirror ==
    /\ {r.hash : r \in db} = hash_column(csv)
    /\ \A r \in db : \A i \in 1..Len(csv) :
          csv[i].hash = r.hash =>
              /\ to_csv_cell(r.score) = csv[i].score
              /\ to_csv_cell(r.reason) = csv[i].reason
              /\ to_csv_cell(r.full_text_summary) = csv[i].full_text_summary

\* C17: no silent data loss on write: when save_articles finds the existing
\* file damaged, the records that were in the file are still in it after the
\* write.
C17_NoSilentDataLoss ==
    [][(pc = "save" /\ csvState = "corrupt") =>
          \A i \in 1..Len(csv) :
              \E j \in 1..Len(csv') : csv'[j].hash = csv[i].hash]_vars

\* C18: write failures propagate: a run in which a write to the file or to
\* the table failed ends with the error at its caller; it does not complete.
C18_WriteFailuresPropagate ==
    (write_failed /\ pc = "idle") => outcome = "crashed"

\* C19: updating a non-existent key is a no-op: a score update whose frame
\* names a hash that is not in the file adds no row and removes none, leaves
\* every row it does not name as it was, and is not stopped by the unknown
\* hash: the rows it does name get their new score and reason.
C19_UnknownKeyNoOp ==
    [][api_batch' # api_batch =>
          /\ Len(csv') = Len(csv)
          /\ \A i \in 1..Len(csv) :
                /\ csv'[i].hash = csv[i].hash
                /\ csv[i].hash \notin hash_column(api_batch') => csv'[i] = csv[i]
                /\ unique_index(api_batch') =>
                      \A k \in 1..Len(api_batch') :
                          api_batch'[k].hash = csv[i].hash =>
                              /\ csv'[i].score = api_batch'[k].score
                              /\ csv'[i].reason = api_batch'[k].reason
    ]_vars

\* C19 witness: a frame naming an unknown hash and a stored hash has been
\* applied to a file of two rows, and the stored row has the new verdict.
C19_Witness ==
    /\ Len(api_batch) = 2
    /\ Len(csv) = 2
    /\ api_batch[1].hash \notin hash_column(csv)
    /\ \E i \in 1..Len(csv) :
          /\ csv[i].hash = api_batch[2].hash
          /\ csv[i].score = api_batch[2].score
          /\ \E r \in db : r.hash = csv[i].hash

\* C20: save_articles returns the number of rows it inserted, and returns 0
\* and leaves the store as it is when called with an empty list.
C20_AppendNewReturnsCount ==
    /\ pc = "score" =>
          save_returned = << Cardinality({i \in 1..Len(csv) : csv[i].added_at = runs}) >>
    /\ LET empty_call == save_articles(csvState, csv, db, << >>, runs + 1)
       IN  /\ empty_call.returned = << 0 >>
           /\ << empty_call.csvState, empty_call.csv, empty_call.db >>
                  = << csvState, csv, db >>

\* the place of a tier in the report: High before Medium
TierRank(score) == IF score = "High" THEN 1 ELSE 2

\* C21: report selection and ordering: the report holds exactly the rows of
\* the file scored High or Medium, each once, with High before Medium and,
\* within a tier, the newest email first.
C21_ReportSelectionOrder ==
    outcome = "reported" =>
        /\ \A i \in 1..Len(csv) :
              Cardinality({k \in 1..Len(report) : report[k] = read_csv_row(csv[i])})
                  = IF csv[i].score \in {"High", "Medium"} THEN 1 ELSE 0
        /\ \A k \in 1..Len(report) :
              \E i \in 1..Len(csv) : report[k] = read_csv_row(csv[i])
        /\ \A k, l \in 1..Len(report) :
              k < l =>
                  \/ TierRank(report[k].score) < TierRank(report[l].score)
                  \/ /\ TierRank(report[k].score) = TierRank(report[l].score)
                     /\ report[k].email_date >= report[l].email_date

\* C21 witness: tiers [Medium, High, High] with dates [5, 20, 10] are reported
\* as (High, 20), (High, 10), (Medium, 5).
C21_Witness ==
    /\ outcome = "reported"
    /\ Len(csv) = 3
    /\ << csv[1].score, csv[2].score, csv[3].score >> = << "Medium", "High", "High" >>
    /\ << csv[1].email_date, csv[2].email_date, csv[3].email_date >> = << 5, 20, 10 >>
    /\ report = << read_csv_row(csv[2]), read_csv_row(csv[3]), read_csv_row(csv[1]) >>

\* C22: report minimum-timestamp filter: the report built by a fetch run with
\* a window start m holds exactly the High and Medium rows whose email date
\* is at least m.
C22_ReportMinimumTimestamp ==
    (pc = "update_ts" /\ truthy(start_timestamp)) =>
        \A i \in 1..Len(csv) :
            (\E k \in 1..Len(report) : report[k].hash = csv[i].hash)
                <=> /\ csv[i].score \in {"High", "Medium"}
                    /\ csv[i].email_date >= start_timestamp[1]

\* C23: watermark get/set: a read of last_run.txt returns the value handed to
\* the most recent successful update, and returns None when the file was
\* never written or holds text that is not a number.
C23_WatermarkGetSet ==
    pc = "fetch" =>
        /\ outcome = "timestamp_set" => start_timestamp = latest_email_date_ts
        /\ lastRunFile = << >> => start_timestamp = << >>
        /\ lastRunFile \in {<< "" >>, << "not a number" >>} => start_timestamp = << >>

\* C23 witness: a timestamp was written, a later write failed, and the read
\* returns the written value.
C23_Witness ==
    /\ pc = "fetch"
    /\ outcome = "timestamp_set"
    /\ write_failed
    /\ latest_email_date_ts = << 2 >>
    /\ start_timestamp = << 2 >>

\* the titles of the model that are equal up to letter case
SameUpToCase(t1, t2) ==
    \/ t1 = t2
    \/ {t1, t2} = {"Quantum Catalysis", "quantum catalysis"}

\* the titles of the model that are equal up to whitespace
SameUpToWhitespace(t1, t2) ==
    \/ t1 = t2
    \/ {t1, t2} \subseteq {"Fast DFT", " Fast DFT ", "Fast  DFT"}

\* C24: hash stability: stored rows carry the same hash exactly when their
\* titles are equal up to letter case, so that no two rows hold titles that
\* differ only in case, and every parsed title that differs otherwise from
\* the others has a row of its own.
C24_HashStability ==
    outcome = "saved" =>
        /\ \A i, j \in 1..Len(csv) :
              (csv[i].hash = csv[j].hash) <=> SameUpToCase(csv[i].title, csv[j].title)
        /\ \A i, j \in 1..Len(csv) :
              SameUpToCase(csv[i].title, csv[j].title) => i = j
        /\ \A k \in 1..Len(all_parsed_articles) :
              \E i \in 1..Len(csv) :
                  /\ SameUpToCase(csv[i].title, all_parsed_articles[k].title)
                  /\ csv[i].hash = get_title_hash(all_parsed_articles[k].title)

\* C24 witness: one email carried "Quantum Catalysis" and "quantum catalysis",
\* a later one "Fast DFT": two rows are stored.
C24_Witness ==
    /\ outcome = "saved"
    /\ Len(csv) = 2
    /\ csv[1].title = "Quantum Catalysis"
    /\ csv[2].title = "Fast DFT"
    /\ csv[1].added_at # csv[2].added_at
    /\ Len(all_parsed_articles) = 2

\* C25: whitespace normalisation of the key: titles that differ only in
\* leading, trailing or repeated inner whitespace get the same hash and are
\* stored as one row.
C25_WhitespaceNormalised ==
    outcome = "saved" =>
        \A i, j \in 1..Len(csv) :
            SameUpToWhitespace(csv[i].title, csv[j].title) => i = j

\* C26: a fetch run completes its stages in order: a run that fetched at
\* least one email with an article, and whose store took the articles, ends
\* as completed with the articles stored and the watermark written after
\* them, at the date of the newest fetched email.
C26_RunCompletesStages ==
    (/\ pc = "idle"
     /\ all_parsed_articles # << >>
     /\ outcome # "storage_empty") =>
        /\ outcome = "completed"
        /\ \A k \in 1..Len(all_parsed_articles) :
              get_title_hash(all_parsed_articles[k].title) \in hash_column(csv)
        /\ get_last_run_timestamp(lastRunFile) = latest_email_date_ts

\* C27: safe resumption after a partial failure: in every run, also one that
\* follows a run stopped between its append and its watermark, step 3 leaves
\* one row per hash, keeps the rows of a readable file and adds rows only for
\* hashes the file did not hold, and step 4 submits exactly the rows whose
\* score is still empty.
C27_SafeResumption ==
    [][/\ (pc = "save" /\ pc' # "save") =>
            /\ \A i, j \in 1..Len(csv') : csv'[i].hash = csv'[j].hash => i = j
            /\ csvState = "ok" =>
                  /\ Len(csv') >= Len(csv)
                  /\ SubSeq(csv', 1, Len(csv)) = csv
                  /\ \A i \in (Len(csv) + 1)..Len(csv') :
                        csv'[i].hash \notin hash_column(csv)
       /\ (pc = "score" /\ pc' = "enrich") =>
            submitted' = {csv[i].hash : i \in {j \in 1..Len(csv) : csv[j].score = ""}}
      ]_vars

\* C27 witness: the first run stored an article and was stopped before the
\* watermark was written; the second run, over the same email, added no row
\* and submitted the stored row for scoring.
C27_Witness ==
    /\ runs = 2
    /\ pc = "enrich"
    /\ lastRunFile = << >>
    /\ all_parsed_articles # << >>
    /\ csvState = "ok"
    /\ \A i \in 1..Len(csv) : csv[i].added_at = 1
    /\ \A k \in 1..Len(all_parsed_articles) :
          get_title_hash(all_parsed_articles[k].title) \in submitted

\* the batch of the current run held only articles that rows of earlier
\* runs already carry
AllDuplicateBatch ==
    /\ pc \in {"score", "enrich", "report", "update_ts"}
    /\ all_parsed_articles # << >>
    /\ \A k \in 1..Len(all_parsed_articles) :
          \E i \in 1..Len(csv) :
              /\ csv[i].hash = get_title_hash(all_parsed_articles[k].title)
              /\ csv[i].added_at < runs

\* C28: all-duplicate batch: a run whose parsed articles are all stored
\* already inserts no row in the file or the table, goes on without error,
\* and its scoring step takes the unscored rows from the whole file: once it
\* has run, what it submitted are stored rows and no stored row is left
\* without a score.
C28_AllDuplicateBatch ==
    AllDuplicateBatch =>
        /\ \A i \in 1..Len(csv) : csv[i].added_at < runs
        /\ \A r \in db : r.added_at < runs
        /\ outcome = "running"
        /\ pc # "score" =>
              /\ submitted \subseteq {csv[i].hash : i \in 1..Len(csv)}
              /\ \A i \in 1..Len(csv) : csv[i].score # ""

\* C28 witness: the second run parsed only an article that the stopped first
\* run had stored unscored, and its scoring step submitted that row.
C28_Witness ==
    /\ AllDuplicateBatch
    /\ pc = "enrich"
    /\ runs = 2
    /\ Len(csv) = 2
    /\ submitted = {csv[i].hash : i \in 1..Len(csv)}
    /\ Len(all_parsed_articles) = 1

\* C29: source items without articles still advance the watermark: when the
\* fetched emails carry no article, the run ends at step 2 with the file and
\* the table as they were, nothing scored or enriched, and last_run.txt at
\* the newest date of the fetched emails.
C29_NoArticlesAdvanceWatermark ==
    [][(pc = "parse" /\ all_parsed_articles' = << >>) =>
          /\ pc' = "idle"
          /\ << csvState', csv', db' >> = << csvState, csv, db >>
          /\ submitted' = {} /\ llm_calls' = << >> /\ web_fetched' = {}
          /\ get_last_run_timestamp(lastRunFile')
                = << Max({raw_emails[i].date : i \in 1..Len(raw_emails)}) >>
      ]_vars

\* C29 witness: a second run fetched only the email without an article, on a
\* store that holds a row, and moved the watermark to that email's date.
C29_Witness ==
    /\ pc = "idle"
    /\ outcome = "no_articles"
    /\ runs = 2
    /\ Len(csv) > 0
    /\ Len(raw_emails) = 1
    /\ get_last_run_timestamp(lastRunFile) = << raw_emails[1].date >>

\* C30: no new source items ends the run at once: when the mail source
\* returns no email, the run ends at step 1 with the file, the table and
\* last_run.txt as they were and nothing scored or enriched, so rows without
\* a score stay without one.
C30_NoNewEmailsEndsRun ==
    [][(pc = "fetch" /\ raw_emails' = << >>) =>
          /\ pc' = "idle"
          /\ outcome' = "no_new_emails"
          /\ << csvState', csv', db', lastRunFile' >> = << csvState, csv, db, lastRunFile >>
          /\ submitted' = {} /\ llm_calls' = << >> /\ web_fetched' = {}
      ]_vars

\* C30 witness: the first run was stopped with a row stored and unscored; the
\* second run got no email and ended, and the row is still unscored.
C30_Witness ==
    /\ pc = "idle"
    /\ outcome = "no_new_emails"
    /\ runs = 2
    /\ csvState = "ok"
    /\ \E i \in 1..Len(csv) : csv[i].score = ""

====
